---- MODULE Spec2Model ----
(***************************************************************************)
(* OpenAI-to-Dify proxy: the two POST /v1/chat/completions handlers of the *)
(* repository, src/app.py (Flask) and src/main.py (FastAPI).               *)
(*                                                                         *)
(* One request is followed from its arrival to its response.  The only     *)
(* suspension point of a handler is the outbound call to the backend, so   *)
(* each handler is two steps: the code up to the call (Begin) and the code *)
(* after the call has ended (OnReply / OnTransportError / OnTimeout).      *)
(*                                                                         *)
(* Text is a sequence of tokens: single characters, or a literal of the    *)
(* source kept whole ("Bearer ", "chatcmpl-", "Dify API error: ").  A JSON *)
(* value is a record tagged by its type in the field t.                    *)
(***************************************************************************)
EXTENDS Integers, Sequences, FiniteSets, TLC

VARIABLES handler, req, backend, pc, outbound, resp

vars == <<handler, req, backend, pc, outbound, resp>>

\* Longest message list of an inbound request.
MaxMsgs == 3

-----------------------------------------------------------------------------
(* JSON values *)

Absent == [t |-> "absent"]
Null == [t |-> "null"]
Str(s) == [t |-> "str", s |-> s]
Num(n) == [t |-> "num", n |-> n]
Dict(d) == [t |-> "dict", d |-> d]
NotJson == [t |-> "notjson"]

\* The mapping that has the keys of f whose value is not Absent.
MkDict(f) == Dict([k \in {x \in DOMAIN f : f[x].t # "absent"} |-> f[k]])

\* dict.get(key, default) on a Python dict.
PyGet(d, key, default) == IF key \in DOMAIN d THEN d[key] ELSE default

\* Python truthiness of a JSON value.
Truthy(v) ==
    CASE v.t = "str" -> v.s # <<>>
      [] v.t = "num" -> v.n # 0
      [] v.t = "dict" -> DOMAIN v.d # {}
      [] v.t = "bool" -> v.b
      [] OTHER -> FALSE

-----------------------------------------------------------------------------
(* Text *)

Min(a, b) == IF a < b THEN a ELSE b

\* s.startswith(tok), tok a literal of the source.
StartsWith(s, tok) == Len(s) > 0 /\ s[1] = tok

\* s.replace(tok, ''): every occurrence goes.
RemoveAll(s, tok) == SelectSeq(s, LAMBDA c : c # tok)

RECURSIVE LStrip(_)
LStrip(s) == IF s # <<>> /\ Head(s) = " " THEN LStrip(Tail(s)) ELSE s

RECURSIVE RStrip(_)
RStrip(s) ==
    IF s # <<>> /\ s[Len(s)] = " " THEN RStrip(SubSeq(s, 1, Len(s) - 1)) ELSE s

\* s.strip()
Strip(s) == RStrip(LStrip(s))

\* "\n".join(parts)
RECURSIVE JoinNL(_)
JoinNL(parts) ==
    IF parts = <<>> THEN <<>>
    ELSE IF Len(parts) = 1 THEN parts[1]
    ELSE parts[1] \o <<"\n">> \o JoinNL(Tail(parts))

\* len(s.split()): the number of maximal runs of non-blank characters.
SplitCount(s) ==
    Cardinality({i \in 1..Len(s) : s[i] # " " /\ (i = 1 \/ s[i - 1] = " ")})

\* s[:n]
Slice(s, n) == SubSeq(s, 1, Min(n, Len(s)))

\* piece occurs in s as a contiguous run.
Contains(s, piece) ==
    \E i \in 0..(Len(s) - Len(piece)) : SubSeq(s, i + 1, i + Len(piece)) = piece

-----------------------------------------------------------------------------
(* Inbound requests *)

Roles == {"system", "user", "assistant"}

Contents == {<<"a">>, <<"b">>}

Message(role, content) == [role |-> role, content |-> content]

Messages == {Message(r, c) : r \in Roles, c \in Contents}

\* Every message list of at most n messages.
MsgLists(n) == UNION {[1..k -> Messages] : k \in 0..n}

\* Message lists with an empty or a multi-character content, the round trip
\* of the specification among them.
SimpleMsgLists ==
    { <<>>,
      <<Message("user", <<"h", "i">>)>>,
      <<Message("system", <<"S">>), Message("user", <<"h", "i">>)>>,
      <<Message("system", <<>>), Message("user", <<>>)>>,
      <<Message("system", <<"S">>), Message("assistant", <<"x">>)>> }

\* Values of the Authorization header; <<>> is the header left out, which
\* headers.get('Authorization', '') reads as the empty string.
AuthHeaders ==
    { <<>>,
      <<"k">>,
      <<"Bearer ">>,
      <<"Bearer ", " ">>,
      <<"Bearer ", "Bearer ">>,
      <<"Bearer ", "k">>,
      <<"Bearer ", " ", "k", " ">> }

Users == {Null, Str(<<>>), Str(<<"u">>)}

InboundRequest(auth, messages, stream, user) ==
    [auth |-> auth, model |-> <<"m">>, messages |-> messages,
     stream |-> stream, user |-> user]

-----------------------------------------------------------------------------
(* Backend behaviours: what the backend does with the one call it gets *)

Silent == [kind |-> "silent", status |-> 0, text |-> <<>>, json |-> NotJson]

Refused == [kind |-> "refused", status |-> 0, text |-> <<>>, json |-> NotJson]

Reply(status, text, json) ==
    [kind |-> "reply", status |-> status, text |-> text, json |-> json]

Tokens(p, c, tot) ==
    MkDict([prompt_tokens |-> p, completion_tokens |-> c, total_tokens |-> tot])

Metadata(tokens) == MkDict([tokens |-> tokens])

ChatResponse(answer, conversation_id, message_id, created_at, metadata) ==
    MkDict([answer |-> answer, conversation_id |-> conversation_id,
            message_id |-> message_id, created_at |-> created_at,
            metadata |-> metadata])

LongId == <<"a", "b", "c", "d", "e", "f", "0", "1", "2", "3", "4", "5", "6",
            "7", "8", "9", "x", "y", "z">>

Hello == <<"h", "e", "l", "l", "o">>

RateLimited == <<"rate limited">>

SimpleBackends ==
    { Silent,
      Refused,
      Reply(429, <<"{\"message\":\"">> \o RateLimited \o <<"\"}">>,
            MkDict([message |-> Str(RateLimited)])),
      Reply(500, <<"o", "o", "p", "s">>, NotJson),
      Reply(204, <<>>, NotJson),
      Reply(200, <<"<", "h", "t", "m", "l", ">">>, NotJson),
      Reply(200, <<"{...}">>,
            ChatResponse(Str(Hello), Str(LongId), Str(<<"m", "1">>),
                         Num(1000), Absent)) }

Answers == {Absent, Null, Num(5), Str(<<>>), Str(<<"a", " ", "b">>)}

ConversationIds == {Absent, Null, Num(7), Str(<<>>), Str(LongId)}

CreatedAts == {Absent, Null, Num(1000)}

Metadatas ==
    { Absent, Null,
      Metadata(Absent),
      Metadata(Null),
      Metadata(Tokens(Absent, Num(50), Absent)),
      Metadata(Tokens(Absent, Absent, Num(53))),
      Metadata(Tokens(Num(3), Num(50), Num(53))) }

RichBackends ==
    { Reply(200, <<"{...}">>, ChatResponse(a, c, Str(<<"m", "1">>), t, m)) :
        a \in Answers, c \in ConversationIds, t \in CreatedAts, m \in Metadatas }

-----------------------------------------------------------------------------
(* Responses and outbound calls *)

NoCompletion == [t |-> "none"]

\* An error response: HTTP status, the envelope's type ("none" when the
\* envelope has no type field) and its message.
ErrorResponse(status, type, message) ==
    [status |-> status, type |-> type, message |-> message,
     completion |-> NoCompletion]

\* A completion returned with status 200.
OkResponse(completion) ==
    [status |-> 200, type |-> "none", message |-> <<>>,
     completion |-> completion]

\* The body sent to the backend.
DifyRequest(inputs, query, response_mode, conversation_id, user) ==
    [inputs |-> inputs, query |-> query, response_mode |-> response_mode,
     conversation_id |-> conversation_id, user |-> user]

\* One POST to the backend.  timeout is Null when the client library is
\* given none.
OutboundCall(auth, json, timeout) ==
    [auth |-> auth, json |-> json, timeout |-> timeout]

\* A mapping with string values, as a set of <<key, value>> pairs.
EmptyInputs == {}

Respond(r) ==
    /\ resp' = Append(resp, r)
    /\ pc' = "done"
    /\ UNCHANGED <<handler, req, backend, outbound>>

Send(call) ==
    /\ outbound' = Append(outbound, call)
    /\ pc' = "awaiting"
    /\ UNCHANGED <<handler, req, backend, resp>>

-----------------------------------------------------------------------------
(* src/app.py *)

\* except Exception as e: status 500, type proxy_error, message str(e).
AppCaught(e) == ErrorResponse(500, "proxy_error", e)

\* [msg['content'] for msg in messages if msg['role'] == 'user']
AppUserMessages(messages) ==
    LET users == SelectSeq(messages, LAMBDA msg : msg.role = "user")
    IN  [i \in 1..Len(users) |-> users[i].content]

\* user_messages[-1] if user_messages else ""
AppQuery(messages) ==
    LET user_messages == AppUserMessages(messages)
    IN  IF user_messages # <<>> THEN user_messages[Len(user_messages)]
        ELSE <<>>

\* "streaming" if stream else "blocking"
AppResponseMode(stream) == IF stream THEN "streaming" ELSE "blocking"

AppDifyRequest(r) ==
    DifyRequest(EmptyInputs, AppQuery(r.messages), AppResponseMode(r.stream),
                Str(<<>>), <<"abc-123">>)

\* The handler up to requests.post.
AppBegin ==
    /\ pc = "start"
    /\ handler = "app"
    /\ LET auth_header == req.auth
           dify_api_key == Strip(RemoveAll(auth_header, "Bearer "))
       IN  IF ~StartsWith(auth_header, "Bearer ")
           THEN Respond(ErrorResponse(401, "invalid_request_error",
                                      <<"Missing Authorization header">>))
           ELSE IF dify_api_key = <<>>
           THEN Respond(ErrorResponse(401, "invalid_request_error",
                                      <<"API key required">>))
           ELSE Send(OutboundCall(<<"Bearer ">> \o dify_api_key,
                                  AppDifyRequest(req), Null))

\* The completion built from the backend's JSON body.
AppCompletion(dify_response) ==
    [id |-> PyGet(dify_response, "message_id", Str(<<"dify-msg-unknown">>)),
     object |-> "chat.completion",
     created |-> PyGet(dify_response, "created_at", Num(0)),
     model |-> <<"dify-app">>,
     choices |-> << [index |-> 0, role |-> "assistant",
                     content |-> PyGet(dify_response, "answer", Str(<<>>)),
                     finish_reason |-> "stop"] >>,
     usage |-> [prompt_tokens |-> Num(0), completion_tokens |-> Num(0),
                total_tokens |-> Num(0)]]

\* What the handler returns once requests.post has returned.
AppAfterPost(reply) ==
    IF reply.status # 200
    THEN ErrorResponse(reply.status, "dify_api_error",
                       <<"Dify API error: ", ToString(reply.status), " - ">>
                           \o reply.text)
    ELSE IF reply.json.t = "notjson"
    THEN AppCaught(<<"JSONDecodeError">>)
    ELSE IF reply.json.t # "dict"
    THEN AppCaught(<<"AttributeError">>)
    ELSE OkResponse(AppCompletion(reply.json.d))

AppOnReply ==
    /\ pc = "awaiting"
    /\ handler = "app"
    /\ backend.kind = "reply"
    /\ Respond(AppAfterPost(backend))

\* requests.post raises ConnectionError: caught by except Exception.
AppOnTransportError ==
    /\ pc = "awaiting"
    /\ handler = "app"
    /\ backend.kind = "refused"
    /\ Respond(AppCaught(<<"ConnectionError">>))

-----------------------------------------------------------------------------
(* src/main.py *)

\* DIFY_API_KEY of the environment; the module refuses to load without it.
DifyApiKey == <<"env-key">>

\* timeout=30.0 of httpx.AsyncClient
ClientTimeout == 30

\* conversation_id[:16]
IdLength == 16

\* len(answer.split()) + 10
TotalPadding == 10

HTTPException(status_code, detail) == [status |-> status_code, detail |-> detail]

\* str(e) of an HTTPException: "<status_code>: <detail>".
StrHTTPException(e) == <<ToString(e.status), ": ">> \o e.detail

\* The framework's rendering of an HTTPException that leaves the handler:
\* that status and the body {"detail": detail}, which has no type field.
MainRendered(e) == ErrorResponse(e.status, "none", e.detail)

\* except httpx.RequestError as e
MainRequestError(e) ==
    MainRendered(HTTPException(502, <<"Upstream request failed: ">> \o e))

\* except Exception as e; e is the text of str(e).
MainCaught(e) ==
    MainRendered(HTTPException(500, <<"Internal server error: ">> \o e))

\* An HTTPException raised inside the try block is an Exception and not an
\* httpx.RequestError: the second except clause catches it.
MainRaised(e) == MainCaught(StrHTTPException(e))

\* The scan run in list order instead of reversed: the content of the
\* earliest message of role user, None when there is none.
RECURSIVE FirstUserMessage(_)
FirstUserMessage(messages) ==
    IF messages = <<>> THEN Null
    ELSE IF Head(messages).role = "user" THEN Str(Head(messages).content)
    ELSE FirstUserMessage(Tail(messages))

\* for msg in reversed(request.messages): the content of the first message
\* met with role user, None when there is none.
RECURSIVE LastUserMessage(_)
LastUserMessage(messages) ==
    IF messages = <<>> THEN Null
    ELSE IF messages[Len(messages)].role = "user"
    THEN Str(messages[Len(messages)].content)
    ELSE LastUserMessage(SubSeq(messages, 1, Len(messages) - 1))

\* [msg.content for msg in request.messages if msg.role == "system"]
SystemMessages(messages) ==
    LET systems == SelectSeq(messages, LAMBDA msg : msg.role = "system")
    IN  [i \in 1..Len(systems) |-> systems[i].content]

\* dify_request.inputs after the block "Add conversation context".
MainInputs(messages) ==
    IF Len(messages) > 1 /\ SystemMessages(messages) # <<>>
    THEN {<<"system_prompt", JoinNL(SystemMessages(messages))>>}
    ELSE EmptyInputs

\* request.user or "openai-proxy-user"
MainUser(user) == IF Truthy(user) THEN user.s ELSE <<"openai-proxy-user">>

\* response_mode="blocking", whatever request.stream is.
MainResponseMode(stream) == "blocking"

\* dify_request.dict(exclude_none=True): conversation_id is None and left out.
MainDifyRequest(r) ==
    DifyRequest(MainInputs(r.messages), LastUserMessage(r.messages).s,
                MainResponseMode(r.stream), Absent, MainUser(r.user))

\* The handler up to client.post.
MainBegin ==
    /\ pc = "start"
    /\ handler = "main"
    /\ IF req.messages = <<>>
       THEN Respond(MainRaised(HTTPException(400, <<"No messages provided">>)))
       ELSE IF LastUserMessage(req.messages) = Null
       THEN Respond(MainRaised(HTTPException(400, <<"No user message found">>)))
       ELSE Send(OutboundCall(<<"Bearer ">> \o DifyApiKey,
                              MainDifyRequest(req), Num(ClientTimeout)))

\* dify_response.get("metadata", {}).get("tokens", {}): the tokens mapping,
\* or NotJson where the chain raises.
MetadataTokens(dify_response) ==
    LET metadata == PyGet(dify_response, "metadata", Dict(<<>>))
    IN  IF metadata.t # "dict" THEN NotJson
        ELSE LET tokens == PyGet(metadata.d, "tokens", Dict(<<>>))
             IN  IF tokens.t # "dict" THEN NotJson ELSE tokens

\* True when the try block of convert_dify_to_openai raises.
ConvertRaises(dify_response) ==
    LET answer == PyGet(dify_response, "answer", Str(<<>>))
        conversation_id == PyGet(dify_response, "conversation_id", Str(<<>>))
    IN  \/ Truthy(conversation_id) /\ conversation_id.t # "str"
        \/ MetadataTokens(dify_response).t # "dict"
        \/ answer.t # "str"

\* The usage block of the try branch.
ConvertUsage(answer, tokens) ==
    [prompt_tokens |-> PyGet(tokens, "prompt_tokens", Num(0)),
     completion_tokens |->
         PyGet(tokens, "completion_tokens", Num(SplitCount(answer))),
     total_tokens |->
         PyGet(tokens, "total_tokens", Num(SplitCount(answer) + TotalPadding))]

\* The except branch of convert_dify_to_openai.
ConvertFallback(dify_response, model) ==
    [id |-> Str(<<"chatcmpl-", "fallback">>),
     object |-> "chat.completion",
     created |-> Num(0),
     model |-> model,
     choices |-> << [index |-> 0, role |-> "assistant",
                     content |-> PyGet(dify_response, "answer",
                                       Str(<<"Error processing response">>)),
                     finish_reason |-> "stop"] >>,
     usage |-> [prompt_tokens |-> Num(0), completion_tokens |-> Num(0),
                total_tokens |-> Num(0)]]

convert_dify_to_openai(dify_response, model) ==
    IF ConvertRaises(dify_response) THEN ConvertFallback(dify_response, model)
    ELSE LET answer == PyGet(dify_response, "answer", Str(<<>>))
             conversation_id ==
                 PyGet(dify_response, "conversation_id", Str(<<>>))
         IN  [id |-> Str(<<"chatcmpl-">> \o
                         (IF Truthy(conversation_id)
                          THEN Slice(conversation_id.s, IdLength)
                          ELSE <<"proxy">>)),
              object |-> "chat.completion",
              created |-> PyGet(dify_response, "created_at", Num(0)),
              model |-> model,
              choices |-> << [index |-> 0, role |-> "assistant",
                              content |-> answer,
                              finish_reason |-> "stop"] >>,
              usage |-> ConvertUsage(answer.s, MetadataTokens(dify_response).d)]

\* error_data.get("message", response.text), response.text when the body
\* is not a JSON mapping; as the text the f-string makes of it.
MainErrorMsg(reply) ==
    IF reply.json.t # "dict" THEN reply.text
    ELSE LET error_msg == PyGet(reply.json.d, "message", Str(reply.text))
         IN  IF error_msg.t = "str" THEN error_msg.s ELSE <<error_msg.t>>

\* What the handler returns once client.post has returned.
MainAfterPost(reply, model) ==
    IF reply.status # 200
    THEN MainRaised(HTTPException(reply.status,
                        <<"Dify API error: ">> \o MainErrorMsg(reply)))
    ELSE IF reply.json.t = "notjson"
    THEN MainCaught(<<"JSONDecodeError">>)
    ELSE IF reply.json.t # "dict"
    THEN MainCaught(<<"AttributeError">>)
    ELSE OkResponse(convert_dify_to_openai(reply.json.d, model))

MainOnReply ==
    /\ pc = "awaiting"
    /\ handler = "main"
    /\ backend.kind = "reply"
    /\ Respond(MainAfterPost(backend, req.model))

\* client.post raises httpx.ConnectError, an httpx.RequestError.
MainOnTransportError ==
    /\ pc = "awaiting"
    /\ handler = "main"
    /\ backend.kind = "refused"
    /\ Respond(MainRequestError(<<"ConnectError">>))

-----------------------------------------------------------------------------
(* The outbound call's timeout *)

\* The client library gives up on a backend that does not answer, when the
\* call was given a timeout: requests raises requests.Timeout, httpx raises
\* httpx.TimeoutException, an httpx.RequestError.
OnTimeout ==
    /\ pc = "awaiting"
    /\ backend.kind = "silent"
    /\ outbound[Len(outbound)].timeout.t = "num"
    /\ Respond(IF handler = "app" THEN AppCaught(<<"Timeout">>)
               ELSE MainRequestError(<<"ReadTimeout">>))

-----------------------------------------------------------------------------
(* Specification *)

OkAuth == {<<>>, <<"Bearer ", "k">>}

Init ==
    /\ handler \in {"app", "main"}
    /\ pc = "start"
    /\ outbound = <<>>
    /\ resp = <<>>
    /\ \/ /\ req \in {InboundRequest(a, m, s, Null) :
                        a \in OkAuth, m \in MsgLists(MaxMsgs), s \in BOOLEAN}
          /\ backend \in SimpleBackends
       \/ /\ req \in {InboundRequest(a, m, s, u) :
                        a \in AuthHeaders, m \in SimpleMsgLists,
                        s \in BOOLEAN, u \in Users}
          /\ backend \in SimpleBackends
       \/ /\ req = InboundRequest(<<"Bearer ", "k">>,
                                  <<Message("user", <<"h", "i">>)>>,
                                  FALSE, Null)
          /\ backend \in RichBackends

Next ==
    \/ AppBegin
    \/ AppOnReply
    \/ AppOnTransportError
    \/ MainBegin
    \/ MainOnReply
    \/ MainOnTransportError
    \/ OnTimeout

Spec == Init /\ [][Next]_vars

\* Every step of a handler is taken once it can be; the backend's behaviour
\* is fixed by the variable backend, and the client library's timeout fires
\* when it is armed and the backend stays silent.
FairSpec == Spec /\ WF_vars(Next)

-----------------------------------------------------------------------------
(* Vocabulary of the properties *)

Forwarded == outbound # <<>>

Responded == pc = "done"

\* The Authorization header is missing, or is the Bearer scheme followed by
\* nothing but blanks.
NoCredential(auth) ==
    \/ auth = <<>>
    \/ /\ StartsWith(auth, "Bearer ")
       /\ \A i \in 2..Len(auth) : auth[i] = " "

\* The header carries a bearer credential.
Authenticated(auth) == StartsWith(auth, "Bearer ") /\ ~NoCredential(auth)

UserIndexes(messages) == {i \in 1..Len(messages) : messages[i].role = "user"}

SystemIndexes(messages) ==
    {i \in 1..Len(messages) : messages[i].role = "system"}

\* The largest element of a non-empty set of integers.
Max(S) == CHOOSE i \in S : \A j \in S : j <= i

\* The contents of the messages at the indexes S, in order, joined by
\* newlines.
RECURSIVE JoinedAt(_, _)
JoinedAt(messages, S) ==
    IF S = {} THEN <<>>
    ELSE LET last == Max(S)
         IN  IF S = {last} THEN messages[last].content
             ELSE JoinedAt(messages, S \ {last}) \o <<"\n">>
                      \o messages[last].content

\* The backend answered with a status outside 200..299.
UpstreamFailure == backend.kind = "reply" /\ backend.status \notin 200..299

\* The call ended without a status.
TransportFailure == backend.kind \in {"refused", "silent"}

\* The backend answered 200 with a JSON mapping.
BackendSuccess ==
    backend.kind = "reply" /\ backend.status = 200 /\ backend.json.t = "dict"

\* The value the key has in a JSON value, Absent when the value is not a
\* mapping or has no such key.
Field(v, key) ==
    IF v.t = "dict" /\ key \in DOMAIN v.d THEN v.d[key] ELSE Absent

\* The token count the backend's metadata gives under key, Absent when it
\* gives none.
MetadataCount(key) ==
    LET n == Field(Field(Field(backend.json, "metadata"), "tokens"), key)
    IN  IF n.t = "num" THEN n ELSE Absent

-----------------------------------------------------------------------------
(* Properties *)

\* C1: a request whose Authorization header is missing or carries an empty
\* bearer credential is answered 401, in either handler, and no outbound
\* call is made while it is handled.
C1_NoCredentialIs401 ==
    NoCredential(req.auth) =>
        /\ ~Forwarded
        /\ Responded => resp[1].status = 401

\* C2: an authenticated request whose non-empty message list has no message
\* of role user ends in status 400 with type invalid_request_error, and is
\* never forwarded.
C2_NoUserMessageIs400 ==
    (/\ Authenticated(req.auth)
     /\ req.messages # <<>>
     /\ UserIndexes(req.messages) = {}) =>
        /\ ~Forwarded
        /\ Responded => /\ resp[1].status = 400
                        /\ resp[1].type = "invalid_request_error"

\* C3: when the backend answers with a non-2xx status s, the client gets
\* status s, type upstream_error and a message that contains the backend's
\* body text.
C3_UpstreamStatusVerbatim ==
    (Responded /\ Forwarded /\ UpstreamFailure) =>
        /\ resp[1].status = backend.status
        /\ resp[1].type = "upstream_error"
        /\ Contains(resp[1].message, backend.text)

\* C4: when the outbound call fails at the transport level, the client gets
\* status 502 and type transport_error, never 500.
C4_TransportFailureIs502 ==
    (Responded /\ Forwarded /\ TransportFailure) =>
        /\ resp[1].status = 502
        /\ resp[1].type = "transport_error"

\* C5: for a request with at least one message of role user, the query of
\* the backend request that is sent is the content of the last message of
\* role user, whatever messages of other roles come before or after it.
C5_QueryIsLastUserMessage ==
    (Forwarded /\ UserIndexes(req.messages) # {}) =>
        outbound[1].json.query =
            req.messages[Max(UserIndexes(req.messages))].content

\* C5 witness: a request was forwarded whose last user message follows a
\* user message of another content and is followed by a message of another
\* role, and its content is the query.
C5_Witness ==
    /\ Forwarded
    /\ \E i, j, k \in 1..Len(req.messages) :
          /\ i < j /\ j < k
          /\ req.messages[i].role = "user"
          /\ req.messages[j].role = "user"
          /\ req.messages[k].role # "user"
          /\ req.messages[i].content # req.messages[j].content
          /\ outbound[1].json.query = req.messages[j].content

\* C6: the inputs of a forwarded request are fixed by the system messages:
\* system_prompt is their contents joined by newlines in order when there
\* is one or more, and inputs is the empty mapping when there is none.
C6_InputsFromSystemMessages ==
    Forwarded =>
        outbound[1].json.inputs =
            (IF SystemIndexes(req.messages) = {} THEN {}
             ELSE {<<"system_prompt",
                     JoinedAt(req.messages, SystemIndexes(req.messages))>>})

\* C7: whatever of answer, conversation_id, created_at and metadata is
\* missing, null or of the wrong type in the backend's response, the
\* translation returns a well-formed completion with the documented
\* defaults: a string id, created = created_at or 0, content = answer or
\* the empty string, one choice of index 0 and finish_reason stop, numeric
\* usage; and an answer that was present is not lost.
C7_TranslationTotal ==
    (Responded /\ Forwarded /\ BackendSuccess) =>
        LET c == resp[1].completion
            answer == Field(backend.json, "answer")
            created_at == Field(backend.json, "created_at")
        IN  /\ resp[1].status = 200
            /\ "id" \in DOMAIN c
            /\ c.id.t = "str"
            /\ c.created = (IF created_at.t = "num" THEN created_at ELSE Num(0))
            /\ Len(c.choices) = 1
            /\ c.choices[1].index = 0
            /\ c.choices[1].finish_reason = "stop"
            /\ c.choices[1].content =
                   (IF answer.t = "str" THEN answer ELSE Str(<<>>))
            /\ c.usage.prompt_tokens.t = "num"
            /\ c.usage.completion_tokens.t = "num"
            /\ c.usage.total_tokens.t = "num"

\* C8: the response_mode of a forwarded request is "streaming" exactly when
\* the inbound stream flag is true, and "blocking" otherwise.
C8_ResponseModeFollowsStream ==
    Forwarded =>
        outbound[1].json.response_mode =
            (IF req.stream THEN "streaming" ELSE "blocking")

\* C9: usage.total_tokens of the translated response is the backend
\* metadata total when the metadata gives one, and the reported
\* usage.completion_tokens + 10 otherwise.
C9_TotalTokens ==
    (Responded /\ Forwarded /\ BackendSuccess /\ resp[1].status = 200) =>
        LET usage == resp[1].completion.usage
        IN  /\ usage.total_tokens.t = "num"
            /\ usage.completion_tokens.t = "num"
            /\ usage.total_tokens.n =
                   (IF MetadataCount("total_tokens").t = "num"
                    THEN MetadataCount("total_tokens").n
                    ELSE usage.completion_tokens.n + 10)

\* C10: a request that reaches the outbound call eventually gets exactly
\* one response, even from a backend that never answers, and no second
\* outbound call is made for it.
C10_EventuallyOneResponse ==
    /\ [](Len(outbound) <= 1 /\ Len(resp) <= 1)
    /\ (pc = "awaiting") ~> (pc = "done" /\ Len(resp) = 1)

====
